---- MODULE Spec2Model ----
(***************************************************************************)
(* Feature-vector writers of package model (src/util/terminal.go):         *)
(* featureWriter (Assign / write / Write / WriteAt / Skip),                *)
(* chunkFeatureWriter (eight sub-encodings of the 36-slot chunk vector)    *)
(* and boostFeatureWriter (three sub-encodings of the 10-slot vector).     *)
(*                                                                         *)
(* A float32 slot is modelled as an exact fraction <<n, d>> in lowest      *)
(* terms (d = 0 for the NaN / Inf results of a float division by zero).    *)
(* A Go panic is the field fw.panic: once set the goroutine has unwound    *)
(* and no further call runs on the writer.                                 *)
(***************************************************************************)
EXTENDS Integers, Sequences, FiniteSets, TLC

VARIABLES fw, pc, call, chunk, cluster, classes, clusters

vars == <<fw, pc, call, chunk, cluster, classes, clusters>>

\* ------------------------------------------------------------------ bounds
MaxCap == 3        \* capacities of the vectors bound in the call-sequence model
MaxPos == 5        \* cursor cap of the call-sequence model (Skip is unbounded in Go)
MaxSkip == 2       \* largest n of a Skip(n) call in the call-sequence model
MaxOff == 2        \* largest off of a WriteAt(v, off) call in the call-sequence model

\* --------------------------------------------------------------- constants
chunkFeatureCap == 36
boostFeatureCap == 10

\* ------------------------------------------------------------ float32 slots
RECURSIVE GCD(_, _)
GCD(a, b) == IF b = 0 THEN a ELSE GCD(b, a % b)

Abs(n) == IF n < 0 THEN -n ELSE n

\* float32(n) of a Go int
Float32(n) == <<n, 1>>

\* float32(a) / float32(b): IEEE division, no panic on b = 0 (NaN or Inf)
Float32Div(a, b) ==
    IF b = 0 THEN (IF a = 0 THEN <<0, 0>> ELSE <<1, 0>>)
    ELSE LET g == GCD(Abs(a), Abs(b)) IN <<a \div g, b \div g>>

Zero == Float32(0)
One == Float32(1)

\* The interface{} values handed to write: the dynamic type and the value.
IntV(n) == [type |-> "int", n |-> n, d |-> 1, b |-> FALSE]
BoolV(b) == [type |-> "bool", n |-> 0, d |-> 1, b |-> b]
F32V(f) == [type |-> "float32", n |-> f[1], d |-> f[2], b |-> FALSE]

\* The type switch of write: what is stored in the component.
Convert(val) ==
    CASE val.type = "int" -> Float32(val.n)
      [] val.type = "float32" -> <<val.n, val.d>>
      [] val.type = "bool" -> IF val.b THEN One ELSE Zero

\* ------------------------------------------------------------ featureWriter
\* feature / isnil / Pos are the struct; panic is the pending panic message;
\* bound, stored and cover are history: the vector as it was bound, the
\* indices stored to since, and how often the cursor passed each index.
ZeroWriter ==
    [feature |-> <<>>, isnil |-> TRUE, Pos |-> 0, panic |-> "",
     bound |-> <<>>, stored |-> {}, cover |-> <<>>]

ZeroVec(c) == [i \in 1..c |-> Zero]

\* cap(fw.feature); the vectors are slices of whole arrays, so cap = len.
Cap(w) == Len(w.feature)

\* Variant of PartiallyFilled: only a cursor short of the capacity counts.
PartiallyFilledBelow(w) == (~w.isnil) /\ w.Pos < Cap(w)

\* The guard of Assign's panic.
PartiallyFilled(w) == (~w.isnil) /\ w.Pos # Cap(w)

Assign(w, f) ==
    IF w.panic # "" THEN w
    ELSE IF PartiallyFilled(w) THEN [w EXCEPT !.panic = "partially filled feature"]
    ELSE [w EXCEPT !.feature = f, !.isnil = FALSE, !.Pos = 0,
                   !.bound = f, !.stored = {}, !.cover = [i \in 1..Len(f) |-> 0]]

\* fw.Pos += n
Skip(w, n) ==
    IF w.panic # "" THEN w
    ELSE [w EXCEPT !.Pos = w.Pos + n,
                   !.cover = [i \in 1..Len(w.cover) |->
                                 IF i - 1 >= w.Pos /\ i - 1 < w.Pos + n
                                 THEN w.cover[i] + 1 ELSE w.cover[i]]]

\* write(val, off, skip): index fw.Pos+off (0-based; slot idx+1 here),
\* runtime panic when the index is outside the slice.
write(w, val, off, skip) ==
    IF w.panic # "" THEN w
    ELSE LET idx == w.Pos + off IN
         IF idx < 0 \/ idx >= Len(w.feature)
         THEN [w EXCEPT !.panic = "index out of range"]
         ELSE LET s == [w EXCEPT !.feature[idx + 1] = Convert(val),
                                 !.stored = w.stored \cup {idx}]
              IN IF skip > 0 THEN Skip(s, skip) ELSE s

Write(w, val) == write(w, val, 0, 1)

\* Variant of WriteAt: moves to the next component like Write.
WriteAtAdvancing(w, val, off) == write(w, val, off, 1)

WriteAt(w, val, off) == write(w, val, off, 0)

\* ------------------------------------------------------- chunkFeatureWriter
\* Go map lookup m[k]: the zero value when the key is missing.
MapGet(m, k) == IF k \in DOMAIN m THEN m[k] ELSE 0

elementTypes ==
    [t \in {"p", "a", "div", "h1", "h2", "h3", "h4", "h5", "h6"} |->
        CASE t = "p" -> 0
          [] t = "a" -> 1
          [] t = "div" -> 2
          [] OTHER -> 3]

WriteElementType(w, c) ==
    Skip(WriteAt(w, BoolV(TRUE), MapGet(elementTypes, c.tag)), 4)

parentTypes ==
    [t \in {"p", "span", "div", "li"} |->
        CASE t = "p" -> 0
          [] t = "span" -> 1
          [] t = "div" -> 2
          [] OTHER -> 3]

\* Variant of WriteParentType: the skip is inside the parent branch.
WriteParentTypeSkipInBranch(w, c) ==
    IF c.hasParent
    THEN Skip(WriteAt(w, BoolV(TRUE), MapGet(parentTypes, c.parentTag)), 4)
    ELSE w

WriteParentType(w, c) ==
    Skip(IF c.hasParent
         THEN WriteAt(w, BoolV(TRUE), MapGet(parentTypes, c.parentTag))
         ELSE w, 4)

\* types[t] after the loop over chunk.GetSiblingTypes()
SiblingCount(sib, t) == Cardinality({i \in 1..Len(sib) : sib[i] = t})

\* Variant of WriteSiblingTypes: the fractions are written without the
\* count > 0 guard.
WriteSiblingTypesUnguarded(w, c) ==
    LET sib == c.siblingTypes
        count == Len(sib)
        a == SiblingCount(sib, "a")
        p == SiblingCount(sib, "p")
        img == SiblingCount(sib, "img")
        w4 == Write(Write(Write(Write(w, IntV(count)), IntV(a)), IntV(p)), IntV(img))
    IN Write(Write(Write(w4, F32V(Float32Div(a, count))),
                   F32V(Float32Div(p, count))),
             F32V(Float32Div(img, count)))

WriteSiblingTypes(w, c) ==
    LET sib == c.siblingTypes
        count == Len(sib)
        a == SiblingCount(sib, "a")
        p == SiblingCount(sib, "p")
        img == SiblingCount(sib, "img")
        w4 == Write(Write(Write(Write(w, IntV(count)), IntV(a)), IntV(p)), IntV(img))
    IN IF count > 0
       THEN Write(Write(Write(w4, F32V(Float32Div(a, count))),
                        F32V(Float32Div(p, count))),
                  F32V(Float32Div(img, count)))
       ELSE Skip(w4, 3)

\* chunk.Ancestors is the set of ancestor flags whose bit is set.
WriteAncestors(w, c) ==
    Write(Write(Write(Write(w, BoolV("article" \in c.Ancestors)),
                      BoolV("aside" \in c.Ancestors)),
                BoolV("blockquote" \in c.Ancestors)),
          BoolV("list" \in c.Ancestors))

WriteTextStat(w, c) ==
    Write(Write(Write(w, IntV(c.Words)), IntV(c.Sentences)), IntV(c.LinkText))

\* Variant of WriteTextStatSiblings: the no-prev branch skips 2 slots.
WriteTextStatSiblingsShortSkip(w, c) ==
    LET w1 == IF c.hasPrev
              THEN Write(Write(Write(w, BoolV(c.Prev.Block = c.Block)),
                               IntV(c.Prev.Words)), IntV(c.Prev.Sentences))
              ELSE Skip(w, 2)
    IN IF c.hasNext
       THEN Write(Write(Write(w1, BoolV(c.Next.Block = c.Block)),
                        IntV(c.Next.Words)), IntV(c.Next.Sentences))
       ELSE Skip(w1, 3)

WriteTextStatSiblings(w, c) ==
    LET w1 == IF c.hasPrev
              THEN Write(Write(Write(w, BoolV(c.Prev.Block = c.Block)),
                               IntV(c.Prev.Words)), IntV(c.Prev.Sentences))
              ELSE Skip(w, 3)
    IN IF c.hasNext
       THEN Write(Write(Write(w1, BoolV(c.Next.Block = c.Block)),
                        IntV(c.Next.Words)), IntV(c.Next.Sentences))
       ELSE Skip(w1, 3)

\* The comparison of the selection loop: Go int division on both sides.
Better(stat, best) == (stat.Words \div stat.Count) > (best.Words \div best.Count)

\* The loop of WriteClassStat from class i on; best is the index in cls of
\* the class whose statistic is held (0 for nil).
RECURSIVE BestClass(_, _, _, _)
BestClass(cls, m, i, best) ==
    IF i > Len(cls) THEN best
    ELSE IF cls[i] \in DOMAIN m
            /\ (best = 0 \/ Better(m[cls[i]], m[cls[best]]))
         THEN BestClass(cls, m, i + 1, i)
         ELSE BestClass(cls, m, i + 1, best)

WriteClassStat(w, c, m) ==
    LET best == BestClass(c.Classes, m, 1, 0) IN
    IF best # 0
    THEN LET stat == m[c.Classes[best]] IN
         Write(Write(Write(w, BoolV(TRUE)),
                     F32V(Float32Div(stat.Words, stat.Count))),
               F32V(Float32Div(stat.Sentences, stat.Count)))
    ELSE Skip(Write(w, BoolV(FALSE)), 2)

WriteClusterStat(w, c, m) ==
    IF c.id \in DOMAIN m
    THEN LET stat == m[c.id] IN
         Write(Write(Write(Write(Write(w, IntV(stat.Words)), IntV(stat.Sentences)),
                           IntV(stat.Count)),
                     F32V(Float32Div(stat.Words, stat.Count))),
               F32V(Float32Div(stat.Sentences, stat.Count)))
    ELSE Skip(w, 5)

\* ------------------------------------------------------- boostFeatureWriter
goodQualWords ==
    {"article", "catchline", "chapter", "content", "head", "intro",
     "introduction", "leadin", "main", "post", "story", "summary", "title"}

poorQualWords ==
    {"author", "blog", "byline", "caption", "col", "comment", "description",
     "email", "excerpt", "image", "info", "menu", "metadata", "nav", "photo",
     "small", "teaser", "widget"}

\* util.Regex.In: the class name is one of the words.
RegexIn(words, class) == class \in words

WriteChunk(w, c) ==
    LET goodQual == \E i \in 1..Len(c.Classes) : RegexIn(goodQualWords, c.Classes[i])
        poorQual == \E i \in 1..Len(c.Classes) : RegexIn(poorQualWords, c.Classes[i])
    IN Write(Write(Write(Write(Write(w, IntV(c.LinkText)), IntV(c.Words)),
                         IntV(c.Sentences)),
                   BoolV(goodQual)),
             BoolV(poorQual))

\* The search loop of WriteCluster: the first i (0-based) with
\* cluster.Chunks[i] == chunk, len(cluster.Chunks) when there is none.
RECURSIVE Position(_, _, _)
Position(chunks, id, i) ==
    IF i >= Len(chunks) THEN i
    ELSE IF chunks[i + 1] = id THEN i
    ELSE Position(chunks, id, i + 1)

\* fw.Write(scores[i]): the index expression panics before Write is called.
WriteScore(w, scores, i) ==
    IF w.panic # "" THEN w
    ELSE IF i < 0 \/ i >= Len(scores)
    THEN [w EXCEPT !.panic = "index out of range"]
    ELSE Write(w, F32V(Float32(scores[i + 1])))

\* Variant of HasNextScore: compares against the last position.
HasNextScoreUpToLast(i, n) == i < n - 1

\* The guard of the next-score branch.
HasNextScore(i, n) == i < n - 2

WriteCluster(w, c, cl) ==
    LET i == Position(cl.Chunks, c.id, 0)
        w1 == Write(w, F32V(Float32(cl.Score)))
        w2 == WriteScore(w1, cl.Scores, i)
        w3 == IF i > 0 THEN WriteScore(w2, cl.Scores, i - 1)
              ELSE Write(w2, IntV(-10))
    IN IF HasNextScore(i, Len(cl.Chunks)) THEN WriteScore(w3, cl.Scores, i + 1)
       ELSE Write(w3, IntV(-10))

WriteTitleSimilarity(w, c) ==
    IF c.tag \in {"h1", "h2", "h3"}
    THEN Write(w, F32V(c.sim))
    ELSE Skip(w, 1)

\* ------------------------------------------------- call-sequence model (Spec)
NoCall == [name |-> "none", val |-> IntV(0), off |-> 0, n |-> 0, f |-> <<>>]

NoStat == [Words |-> 0, Sentences |-> 0, Count |-> 1]

\* A neighbour chunk as far as the encoders read it.
NoNeighbor == [Block |-> 0, Words |-> 0, Sentences |-> 0]

\* A chunk as far as the encoders read it; hasParent / hasPrev / hasNext are
\* Base.Parent != nil, Prev != nil and Next != nil, id is the pointer identity.
NoChunk ==
    [id |-> 1, tag |-> "p", hasParent |-> FALSE, parentTag |-> "",
     siblingTypes |-> <<>>, Ancestors |-> {}, Words |-> 0, Sentences |-> 0,
     LinkText |-> 0, Block |-> 1, hasPrev |-> FALSE, Prev |-> NoNeighbor,
     hasNext |-> FALSE, Next |-> NoNeighbor, Classes |-> <<>>, sim |-> Zero]

NoCluster == [Chunks |-> <<>>, Scores |-> <<>>, Score |-> 0]

Values == {IntV(2), IntV(-10), BoolV(TRUE), BoolV(FALSE), F32V(Float32Div(1, 2))}

Vectors == {ZeroVec(c) : c \in 0..MaxCap} \cup {[i \in 1..2 |-> Float32(7)]}

Init ==
    /\ fw = ZeroWriter
    /\ pc = "calls"
    /\ call = NoCall
    /\ chunk = NoChunk
    /\ cluster = NoCluster
    /\ classes = <<>>
    /\ clusters = <<>>

CallAssign ==
    /\ pc = "calls" /\ fw.panic = ""
    /\ \E f \in Vectors :
          /\ fw' = Assign(fw, f)
          /\ call' = [NoCall EXCEPT !.name = "Assign", !.f = f]
    /\ UNCHANGED <<pc, chunk, cluster, classes, clusters>>

CallWrite ==
    /\ pc = "calls" /\ fw.panic = ""
    /\ \E v \in Values :
          /\ fw' = Write(fw, v)
          /\ call' = [NoCall EXCEPT !.name = "Write", !.val = v]
    /\ UNCHANGED <<pc, chunk, cluster, classes, clusters>>

CallWriteAt ==
    /\ pc = "calls" /\ fw.panic = ""
    /\ \E v \in Values, off \in 0..MaxOff :
          /\ fw' = WriteAt(fw, v, off)
          /\ call' = [NoCall EXCEPT !.name = "WriteAt", !.val = v, !.off = off]
    /\ UNCHANGED <<pc, chunk, cluster, classes, clusters>>

CallSkip ==
    /\ pc = "calls" /\ fw.panic = ""
    /\ \E n \in 0..MaxSkip :
          /\ fw.Pos + n <= MaxPos
          /\ fw' = Skip(fw, n)
          /\ call' = [NoCall EXCEPT !.name = "Skip", !.n = n]
    /\ UNCHANGED <<pc, chunk, cluster, classes, clusters>>

Next == CallAssign \/ CallWrite \/ CallWriteAt \/ CallSkip

Spec == Init /\ [][Next]_vars

\* ------------------------------------------- encoding passes (PassSpec)
\* One writer is bound to a fresh zero-filled vector, the sub-encodings run
\* in the order of the extractor, and the writer is bound to the next vector.
RECURSIVE SeqsUpTo(_, _)
SeqsUpTo(S, n) ==
    IF n = 0 THEN {<<>>}
    ELSE LET shorter == SeqsUpTo(S, n - 1)
         IN shorter \cup {Append(q, x) : q \in {r \in shorter : Len(r) = n - 1}, x \in S}

MaxSiblings == 2   \* longest chunk.GetSiblingTypes() of the pass model
MaxCluster == 4    \* longest cluster of the pass model

ChunkTags == {"p", "h2", "span"}
BoostTags == {"p", "h2", "h5"}
PassParents == {"div", "ul"}
SiblingTags == {"a", "p", "img", "div"}
PassAncestors == {{}, {"aside", "list"}}
\* chunk.Prev: nil, or a chunk of the same block (the chunks' Block is 1).
PassPrevs ==
    {[has |-> FALSE, n |-> NoNeighbor],
     [has |-> TRUE, n |-> [Block |-> 1, Words |-> 4, Sentences |-> 2]]}
\* chunk.Next: nil, or a chunk of another block.
PassNexts ==
    {[has |-> FALSE, n |-> NoNeighbor],
     [has |-> TRUE, n |-> [Block |-> 2, Words |-> 6, Sentences |-> 3]]}
PassClasses == {<<>>, <<"nav">>, <<"content", "nav">>}

EmptyMap == [k \in {} |-> NoStat]

\* The class -> statistic maps and the chunk -> statistic maps of a document.
PassClassMaps ==
    {EmptyMap,
     [k \in {"content", "nav"} |->
         IF k = "content" THEN [Words |-> 2, Sentences |-> 1, Count |-> 2]
         ELSE [Words |-> 3, Sentences |-> 2, Count |-> 2]]}

PassClusterMaps ==
    {EmptyMap, [k \in {1} |-> [Words |-> 7, Sentences |-> 3, Count |-> 2]]}

PassChunks ==
    {[NoChunk EXCEPT !.tag = t, !.hasParent = (par # ""), !.parentTag = par,
                     !.siblingTypes = sib, !.Ancestors = anc,
                     !.Words = 5, !.Sentences = 2, !.LinkText = 1,
                     !.hasPrev = pv.has, !.Prev = pv.n,
                     !.hasNext = nx.has, !.Next = nx.n, !.Classes = cls] :
        t \in ChunkTags, par \in PassParents \cup {""},
        sib \in SeqsUpTo(SiblingTags, MaxSiblings), anc \in PassAncestors,
        pv \in PassPrevs, nx \in PassNexts, cls \in PassClasses}

\* Clusters of n chunks with the encoded chunk (id 1) at position pos;
\* pos = n is a cluster the chunk is not a member of.
ClustersOf(n) ==
    {[Chunks |-> [k \in 1..n |-> IF k - 1 = pos THEN 1 ELSE k + 1],
      Scores |-> sc, Score |-> 9] : pos \in 0..n, sc \in [1..n -> {2, 3}]}

PassClusters == UNION {ClustersOf(n) : n \in 1..MaxCluster}

BoostChunks ==
    {[NoChunk EXCEPT !.tag = t, !.Words = 5, !.Sentences = 2, !.LinkText = 1,
                     !.Classes = cls, !.sim = Float32Div(1, 2)] :
        t \in BoostTags, cls \in PassClasses}

PassInit ==
    /\ fw = ZeroWriter
    /\ pc \in {"AssignChunk", "AssignBoost"}
    /\ call = NoCall
    /\ chunk = NoChunk
    /\ cluster = NoCluster
    /\ classes = EmptyMap
    /\ clusters = EmptyMap

AssignChunk ==
    /\ pc = "AssignChunk"
    /\ \E c \in PassChunks, cm \in PassClassMaps, km \in PassClusterMaps :
          /\ chunk' = c
          /\ classes' = cm
          /\ clusters' = km
    /\ fw' = Assign(fw, ZeroVec(chunkFeatureCap))
    /\ pc' = "ElementType"
    /\ UNCHANGED <<call, cluster>>

\* One sub-encoding of the chunk pass: at position at, the writer becomes w.
ChunkStep(at, w, to) ==
    /\ pc = at /\ fw.panic = ""
    /\ fw' = w
    /\ pc' = to
    /\ UNCHANGED <<call, chunk, cluster, classes, clusters>>

StepElementType == ChunkStep("ElementType", WriteElementType(fw, chunk), "ParentType")
StepParentType == ChunkStep("ParentType", WriteParentType(fw, chunk), "SiblingTypes")
StepSiblingTypes == ChunkStep("SiblingTypes", WriteSiblingTypes(fw, chunk), "Ancestors")
StepAncestors == ChunkStep("Ancestors", WriteAncestors(fw, chunk), "TextStat")
StepTextStat == ChunkStep("TextStat", WriteTextStat(fw, chunk), "TextStatSiblings")
StepTextStatSiblings ==
    ChunkStep("TextStatSiblings", WriteTextStatSiblings(fw, chunk), "ClassStat")
StepClassStat == ChunkStep("ClassStat", WriteClassStat(fw, chunk, classes), "ClusterStat")
StepClusterStat ==
    ChunkStep("ClusterStat", WriteClusterStat(fw, chunk, clusters), "ChunkDone")

ReassignChunk ==
    /\ pc = "ChunkDone" /\ fw.panic = ""
    /\ fw' = Assign(fw, ZeroVec(chunkFeatureCap))
    /\ pc' = "ChunkReassigned"
    /\ UNCHANGED <<call, chunk, cluster, classes, clusters>>

AssignBoost ==
    /\ pc = "AssignBoost"
    /\ \E c \in BoostChunks, cl \in PassClusters :
          /\ chunk' = c
          /\ cluster' = cl
    /\ fw' = Assign(fw, ZeroVec(boostFeatureCap))
    /\ pc' = "Chunk"
    /\ UNCHANGED <<call, classes, clusters>>

StepChunk == ChunkStep("Chunk", WriteChunk(fw, chunk), "Cluster")
StepCluster == ChunkStep("Cluster", WriteCluster(fw, chunk, cluster), "TitleSimilarity")
StepTitleSimilarity ==
    ChunkStep("TitleSimilarity", WriteTitleSimilarity(fw, chunk), "BoostDone")

ReassignBoost ==
    /\ pc = "BoostDone" /\ fw.panic = ""
    /\ fw' = Assign(fw, ZeroVec(boostFeatureCap))
    /\ pc' = "BoostReassigned"
    /\ UNCHANGED <<call, chunk, cluster, classes, clusters>>

PassNext ==
    \/ AssignChunk \/ StepElementType \/ StepParentType \/ StepSiblingTypes
    \/ StepAncestors \/ StepTextStat \/ StepTextStatSiblings \/ StepClassStat
    \/ StepClusterStat \/ ReassignChunk
    \/ AssignBoost \/ StepChunk \/ StepCluster \/ StepTitleSimilarity
    \/ ReassignBoost

PassSpec == PassInit /\ [][PassNext]_vars

\* ================================================================== claims
\* The slot at 0-based index i of the bound vector.
Slot(i) == fw.feature[i + 1]

\* The chunk is a member of the cluster handed to WriteCluster.
Member == \E k \in 1..Len(cluster.Chunks) : cluster.Chunks[k] = chunk.id

ChunkPcs ==
    {"ElementType", "ParentType", "SiblingTypes", "Ancestors", "TextStat",
     "TextStatSiblings", "ClassStat", "ClusterStat"}

\* C1 (Spec): a call of Assign(f) panics exactly when a vector is bound and
\* Pos differs from its capacity; otherwise it binds f and sets Pos to 0. A
\* panicking Assign leaves the vector and the cursor as they were.
C1_AssignFailsIffPartiallyFilled ==
    [][call'.name = "Assign" =>
          /\ (fw'.panic # "") <=> ((~fw.isnil) /\ fw.Pos # Len(fw.feature))
          /\ fw'.panic = "" =>
                (~fw'.isnil) /\ fw'.feature = call'.f /\ fw'.Pos = 0
          /\ fw'.panic # "" =>
                fw'.panic = "partially filled feature"
                /\ fw'.feature = fw.feature /\ fw'.Pos = fw.Pos]_vars

\* C1 witness: an Assign has panicked on a writer whose cursor had been
\* skipped past the capacity of its bound vector.
C1_Witness ==
    /\ call.name = "Assign"
    /\ fw.panic = "partially filled feature"
    /\ (~fw.isnil) /\ fw.Pos > Len(fw.feature)

\* What a call of Write / WriteAt stores for a value of each accepted type.
Stored(val) ==
    IF val.type = "bool" THEN (IF val.b THEN <<1, 1>> ELSE <<0, 1>>)
    ELSE <<val.n, val.d>>

\* C10 (Spec): Write(v) stores v at index Pos and advances Pos by 1;
\* WriteAt(v, off) stores v at index Pos+off and keeps Pos; Skip(n) advances
\* Pos by n and changes no slot; no other slot changes, so every slot not
\* stored to since the vector was bound holds the value it was bound with.
C10_PrimitiveEffects ==
    /\ [](\A i \in 1..Len(fw.feature) :
             (i - 1) \notin fw.stored => fw.feature[i] = fw.bound[i])
    /\ [][/\ (call'.name = "Write" /\ fw'.panic = "") =>
                /\ fw'.Pos = fw.Pos + 1
                /\ fw'.feature = [fw.feature EXCEPT ![fw.Pos + 1] = Stored(call'.val)]
          /\ (call'.name = "WriteAt" /\ fw'.panic = "") =>
                /\ fw'.Pos = fw.Pos
                /\ fw'.feature =
                      [fw.feature EXCEPT ![fw.Pos + call'.off + 1] = Stored(call'.val)]
          /\ call'.name = "Skip" =>
                /\ fw'.Pos = fw.Pos + call'.n
                /\ fw'.feature = fw.feature
                /\ fw'.panic = ""]_vars

\* C10 witness: after a Write and a Skip on a vector bound with non-zero
\* slots, the written slot holds the value and the skipped one its old value.
C10_Witness ==
    /\ call.name = "Skip" /\ call.n = 1
    /\ fw.bound = <<Float32(7), Float32(7)>>
    /\ fw.stored = {0}
    /\ fw.Pos = 2
    /\ fw.feature = <<Float32(-10), Float32(7)>>

\* C2 (PassSpec): the chunk pass never panics on an index, ends with the
\* cursor at 36 having passed every slot exactly once (by a Write or a
\* Skip), and the boost pass of a chunk that is a member of its cluster ends
\* likewise at 10; the next Assign on the writer then succeeds.
C2_PassFillsVector ==
    /\ pc \in ChunkPcs \cup {"ChunkDone", "ChunkReassigned"} => fw.panic = ""
    /\ pc = "ChunkDone" =>
          /\ fw.Pos = 36
          /\ Len(fw.feature) = 36
          /\ \A i \in 1..36 : fw.cover[i] = 1
    /\ (pc \in {"Chunk", "Cluster", "TitleSimilarity", "BoostDone", "BoostReassigned"}
        /\ Member) => fw.panic = ""
    /\ (pc = "BoostDone" /\ Member) =>
          /\ fw.Pos = 10
          /\ Len(fw.feature) = 10
          /\ \A i \in 1..10 : fw.cover[i] = 1
    /\ (pc \in {"ChunkReassigned", "BoostReassigned"} /\ fw.panic = "") => fw.Pos = 0

\* C2 witness: the writer was bound again after a chunk pass that took the
\* no-parent, no-sibling, no-prev, next-present, class-miss, cluster-hit
\* branches.
C2_Witness ==
    /\ pc = "ChunkReassigned"
    /\ fw.panic = "" /\ fw.Pos = 0
    /\ ~chunk.hasParent /\ chunk.siblingTypes = <<>>
    /\ ~chunk.hasPrev /\ chunk.hasNext
    /\ classes = EmptyMap /\ chunk.id \in DOMAIN clusters

\* The slot widths as the specification lists them.
ListedWidth(at) ==
    CASE at = "ElementType" -> 5
      [] at = "ParentType" -> 5
      [] at = "SiblingTypes" -> 7
      [] at = "Ancestors" -> 4
      [] at = "TextStat" -> 3
      [] at = "TextStatSiblings" -> 6
      [] at = "ClassStat" -> 3
      [] at = "ClusterStat" -> 5

\* The slot widths of the code: element type and parent type take 4 slots.
CodeWidth(at) ==
    IF at \in {"ElementType", "ParentType"} THEN 4 ELSE ListedWidth(at)

\* C3 as stated (PassSpec): every chunk sub-encoding advances the cursor by
\* the listed width (5, 5, 7, 4, 3, 6, 3, 5) on every branch.
C3_ListedWidths ==
    [][(pc \in ChunkPcs /\ pc' # pc) => fw'.Pos - fw.Pos = ListedWidth(pc)]_vars

\* C3 amended (PassSpec): every chunk sub-encoding advances the cursor by a
\* fixed width on every branch: 4, 4, 7, 4, 3, 6, 3, 5.
C3_FixedWidths ==
    [][(pc \in ChunkPcs /\ pc' # pc) => fw'.Pos - fw.Pos = CodeWidth(pc)]_vars

\* C3 witness: a chunk pass has ended after the parent-present,
\* siblings-present, prev-present, no-next, class-hit, cluster-miss branches.
C3_Witness ==
    /\ pc = "ChunkDone"
    /\ fw.Pos = 36
    /\ chunk.hasParent /\ chunk.siblingTypes # <<>>
    /\ chunk.hasPrev /\ ~chunk.hasNext
    /\ chunk.Classes # <<>> /\ classes # EmptyMap /\ clusters = EmptyMap

C5_ParentTypeOneHot ==
    pc = "SiblingTypes" =>
       \A k \in 0..3 :
          Slot(4 + k) = IF chunk.hasParent
                           /\ \/ (chunk.parentTag = "p" /\ k = 0)
                              \/ (chunk.parentTag = "span" /\ k = 1)
                              \/ (chunk.parentTag = "div" /\ k = 2)
                              \/ (chunk.parentTag = "li" /\ k = 3)
                        THEN One ELSE Zero

\* C6 as stated (PassSpec): WriteCluster never indexes the score sequence
\* out of range, also for a chunk that is not a member of the cluster.
C6_NoScoreOutOfRange ==
    pc = "TitleSimilarity" => fw.panic # "index out of range"

\* The 0-based position of the chunk in its cluster.
MemberPos == (CHOOSE k \in 1..Len(cluster.Chunks) : cluster.Chunks[k] = chunk.id) - 1

\* C7 (PassSpec): for a member at position i of a cluster of n chunks,
\* WriteCluster writes Score(), Scores[i], then Scores[i-1] (-10 when
\* i = 0), then Scores[i+1] when i < n-2 and -10 otherwise.
C7_ClusterScoreContext ==
    (pc = "TitleSimilarity" /\ Member) =>
       LET i == MemberPos
           n == Len(cluster.Chunks)
       IN /\ fw.panic = "" /\ fw.Pos = 9
          /\ Slot(5) = <<cluster.Score, 1>>
          /\ Slot(6) = <<cluster.Scores[i + 1], 1>>
          /\ Slot(7) = IF i > 0 THEN <<cluster.Scores[i], 1>> ELSE <<-10, 1>>
          /\ Slot(8) = IF i < n - 2 THEN <<cluster.Scores[i + 2], 1>> ELSE <<-10, 1>>

\* C7 witness: position 2 of a 4-chunk cluster whose scores are 2, 3, 2, 3:
\* previous score 3, next score the sentinel although a next chunk exists.
C7_Witness ==
    /\ pc = "TitleSimilarity"
    /\ Len(cluster.Chunks) = 4 /\ cluster.Chunks[3] = chunk.id
    /\ cluster.Scores = <<2, 3, 2, 3>>
    /\ Slot(6) = <<2, 1>> /\ Slot(7) = <<3, 1>> /\ Slot(8) = <<-10, 1>>

\* The classes of the chunk that have an entry in the class map.
FoundClasses == {k \in 1..Len(chunk.Classes) : chunk.Classes[k] \in DOMAIN classes}

\* Words/Count of a is at least Words/Count of b, as a ratio.
RatioGeq(a, b) == a.Words * b.Count >= b.Words * a.Count

\* C8 as stated (PassSpec): WriteClassStat writes presence 1 and the two
\* averages of the first class, in class order, whose Words/Count ratio is
\* the highest among the classes found; with no class found it writes 0
\* and leaves the two average slots untouched.
C8_ClassStatHighestRatio ==
    pc = "ClusterStat" =>
       IF FoundClasses = {}
       THEN Slot(28) = Zero /\ Slot(29) = Zero /\ Slot(30) = Zero
            /\ fw.stored \cap {29, 30} = {}
       ELSE LET top == {k \in FoundClasses :
                           \A j \in FoundClasses :
                              RatioGeq(classes[chunk.Classes[k]], classes[chunk.Classes[j]])}
                first == CHOOSE k \in top : \A j \in top : k <= j
                stat == classes[chunk.Classes[first]]
            IN /\ Slot(28) = One
               /\ Slot(29)[1] * stat.Count = stat.Words * Slot(29)[2]
               /\ Slot(30)[1] * stat.Count = stat.Sentences * Slot(30)[2]

\* The number of siblings of type t.
Siblings(t) ==
    Cardinality({i \in DOMAIN chunk.siblingTypes : chunk.siblingTypes[i] = t})

\* C9 (PassSpec): WriteSiblingTypes writes the sibling count and the counts
\* of a, p and img siblings; with siblings it writes the three fractions
\* count/total, without any it leaves the three fraction slots untouched
\* (0), and no slot ever holds the result of a division by zero.
C9_SiblingFractions ==
    pc = "Ancestors" =>
       LET total == Len(chunk.siblingTypes) IN
       /\ fw.Pos = 15
       /\ Slot(8) = <<total, 1>>
       /\ Slot(9) = <<Siblings("a"), 1>>
       /\ Slot(10) = <<Siblings("p"), 1>>
       /\ Slot(11) = <<Siblings("img"), 1>>
       /\ \A k \in 12..14 : Slot(k)[2] # 0
       /\ total > 0 =>
             /\ Slot(12)[1] * total = Siblings("a") * Slot(12)[2]
             /\ Slot(13)[1] * total = Siblings("p") * Slot(13)[2]
             /\ Slot(14)[1] * total = Siblings("img") * Slot(14)[2]
       /\ total = 0 =>
             /\ \A k \in 8..14 : Slot(k) = Zero
             /\ fw.stored \cap {12, 13, 14} = {}

\* C9 witness: WriteSiblingTypes has run for a chunk without siblings.
C9_Witness ==
    /\ pc = "Ancestors"
    /\ chunk.siblingTypes = <<>>
    /\ fw.Pos = 15
    /\ {8, 9, 10, 11} \subseteq fw.stored
    /\ fw.stored \cap {12, 13, 14} = {}

====
